---- MODULE Spec2Model ----
(***************************************************************************)
(* collective.whathappened: the per-user notification storage backend      *)
(* (SqliteStorageBackend, storage_backend.py).  The three SQLite tables    *)
(* of the user's store file are the state; every public method of the      *)
(* backend is one action.                                                  *)
(***************************************************************************)
EXTENDS Integers, Sequences, FiniteSets, TLC

\* Python's None, True and False; None where a path is expected.
None == "None"
True == "True"
False == "False"
NoPath == <<>>

(***************************************************************************)
(* Bounds of the model.                                                    *)
(***************************************************************************)
\* Datetimes are whole days 0..MaxWhen after the model's epoch.
MaxWhen == 1
\* Most rows of the three tables together.
MaxRows == 3
\* Datetimes of the notifications stored ahead of a hot-notifications query.
MaxHotWhen == 2

(***************************************************************************)
(* Program constants.                                                      *)
(***************************************************************************)
\* LIMIT 5 of the hot-notifications query.
HotLimit == 5
\* datetime.timedelta(7): the retention window, in days.
Retention == 7
\* Seconds of a day: timestamps are epoch seconds, datetimes are days.
SecondsPerDay == 86400

(***************************************************************************)
(* Input domains.                                                          *)
(***************************************************************************)
Users == {"u1"}
\* What a caller may hand to setUser: a member id, or None.
SessionUsers == {"u1", "u2", "u3", None}
Directories == {None, "var"}
Whats == {"edited"}
Actors == {"bob", "alice"}
Gatherers == {"useraction"}
\* Values of the opaque `info` payload: None and one string.
Infos == {None, "X"}
\* Paths are sequences of characters.
PathA == <<"/", "a">>
PathAB == <<"/", "a", "/", "b">>
PathUpperA == <<"/", "A">>
Wheres == {PathA, PathAB}
SubWheres == {PathA, PathAB, PathUpperA}
Whens == 0..MaxWhen
\* What datetime.datetime.now() may return, in days.
Clock == Retention..(Retention + MaxWhen)
\* The `who` lists: no actor, one, two, and one actor twice.
WhoLists ==
    {<<>>, <<"bob">>, <<"alice">>, <<"bob", "alice">>, <<"bob", "bob">>}

\* The Notification objects handed to the backend.
Notifications ==
    [what : Whats, where : Wheres, when : Whens, who : WhoLists,
     gatherer : Gatherers, seen : {True, False}, info : Infos]

\* What the gatherer hands over: new, unseen, by at most one actor.
GatheredNotifications ==
    {n \in Notifications : Len(n.who) <= 1 /\ n.seen = False}

\* The notifications about one path, whoever performed them.
WriteNotifications == {n \in Notifications : n.where = PathA}

\* The notifications stored ahead of a hot-notifications query: one actor,
\* no info, seen or not.
HotNotifications ==
    [what : Whats, where : Wheres, when : 0..MaxHotWhen, who : {<<"bob">>},
     gatherer : Gatherers, seen : {True, False}, info : {None}]

\* The notifications stored ahead of the three list queries: without an
\* actor at one path, by one actor at the other.
ReadNotifications ==
    {n \in [what : Whats, where : Wheres, when : 0..MaxHotWhen,
             who : {<<>>, <<"bob">>}, gatherer : Gatherers,
             seen : {True, False}, info : {None}] :
        (n.who = <<>>) = (n.where = PathA)}

\* The notifications stored ahead of getLastNotificationTime: new, unseen,
\* by one actor.
TimeNotifications ==
    [what : Whats, where : Wheres, when : Whens, who : {<<"bob">>},
     gatherer : Gatherers, seen : {False}, info : {None}]

\* What GathererManager.getNewNotifications returns to a request handler:
\* None, or a list of new notifications (here of at most one).
GatheredResults ==
    {[none |-> True, list |-> <<>>], [none |-> False, list |-> <<>>]}
        \cup {[none |-> False, list |-> <<n>>] : n \in TimeNotifications}

\* The call of a request handler that raises: None (no call does), the
\* gatherer's getNewNotifications, a storeNotification or the read query
\* (sqlite3.OperationalError, the store file being locked or unreadable).
RequestFaults == {None, "getNewNotifications", "storeNotification", "read"}

\* removeNotification reads what, when and where of its argument only.
RemoveArguments ==
    {n \in Notifications : n.who = <<>> /\ n.seen = False /\ n.info = None}

\* The Subscription objects handed to the backend.
Subscriptions == [where : SubWheres, wants : {True, False, None}]

(***************************************************************************)
(* State.                                                                  *)
(***************************************************************************)
VARIABLES
    user,               \* self.user
    directory,          \* self.directory
    db_path,            \* self.db_path
    db,                 \* self.db: None, or "connection" (an open one)
    notifications,      \* table notifications of the user's store file
    notifications_who,  \* table notifications_who
    subscriptions,      \* table subscriptions
    last                \* the last call: its name, what it raised, its result

vars ==
    <<user, directory, db_path, db, notifications, notifications_who,
      subscriptions, last>>

tables == <<notifications, notifications_who, subscriptions>>
session == <<user, directory, db_path, db>>

(***************************************************************************)
(* Conversions.                                                            *)
(***************************************************************************)
\* Notification.getWhenTimestamp: time.mktime(self.when.timetuple()).
getWhenTimestamp(notification) == notification.when * SecondsPerDay

\* datetime.datetime.fromtimestamp.
fromtimestamp(timestamp) == timestamp \div SecondsPerDay

\* json.dumps on the values of Infos.
json_dumps(info) == IF info = None THEN "null" ELSE "\"X\""

\* json.loads on the texts json_dumps produces.
json_loads(text) == IF text = "null" THEN None ELSE "X"

\* sqlite3 binds a Python bool as the integer 0 or 1.
BindBool(b) == IF b = True THEN 1 ELSE 0

\* os.path.join(self.directory, '%s.sqlite' % self.user)
PathJoin(dir, u) == dir \o "/" \o u \o ".sqlite"

(***************************************************************************)
(* SQL helpers.                                                            *)
(***************************************************************************)
\* The primary key of a notifications or notifications_who row.
Key(row) == <<row.what, row.when, row.where>>

\* SQLite's LIKE folds ASCII case.
Lower(c) == IF c = "A" THEN "a" ELSE IF c = "B" THEN "b" ELSE c

\* SQLite's LIKE: % matches any run of characters, _ any one character,
\* every other character matches itself up to ASCII case.
RECURSIVE Like(_, _)
Like(str, pattern) ==
    IF pattern = <<>> THEN str = <<>>
    ELSE IF Head(pattern) = "%"
        THEN Like(str, Tail(pattern))
             \/ (str # <<>> /\ Like(Tail(str), pattern))
    ELSE /\ str # <<>>
         /\ (Head(pattern) = "_" \/ Lower(Head(pattern)) = Lower(Head(str)))
         /\ Like(Tail(str), Tail(pattern))

\* The row _createNotification inserts into notifications.
NotificationRow(notification) ==
    [what |-> notification.what,
     when |-> getWhenTimestamp(notification),
     where |-> notification.where,
     seen |-> BindBool(notification.seen),
     gatherer |-> notification.gatherer,
     info |-> json_dumps(notification.info)]

\* The row inserted into notifications_who for one actor.
WhoRow(notification, who) ==
    [what |-> notification.what,
     when |-> getWhenTimestamp(notification),
     where |-> notification.where,
     who |-> who]

\* What `last` records of a call: the method, its argument, the branch it
\* took (or the exception it caught and passed over), the exception it
\* raised to the caller (None: it returned) and the value it returned.
Returned(op, arg, path, result) ==
    [op |-> op, arg |-> arg, path |-> path, raised |-> None,
     result |-> result]
Raised(op, arg, path, exception) ==
    [op |-> op, arg |-> arg, path |-> path, raised |-> exception,
     result |-> None]

(***************************************************************************)
(* Construction.                                                           *)
(***************************************************************************)
Init ==
    /\ user \in Users \cup {None}
    /\ directory \in Directories
    /\ db_path = None
    /\ db = None
    /\ notifications = {}
    /\ notifications_who = {}
    /\ subscriptions = {}
    /\ last = Returned("__init__", None, "new", None)

(***************************************************************************)
(* Session lifecycle.                                                      *)
(***************************************************************************)
\* initialize(): os.path.join raises on a None directory; CREATE TABLE IF
\* NOT EXISTS leaves existing tables alone.  sqlite3.connect is followed by
\* no PRAGMA foreign_keys = ON, and SQLite enforces foreign keys (and runs
\* ON DELETE CASCADE) only on a connection that turned the pragma on: the
\* FOREIGN KEY clause of notifications_who is declared and not enforced.
initialize ==
    IF db # None \/ user = None
    THEN /\ last' = Returned("initialize", None, "skip", None)
         /\ UNCHANGED <<session, tables>>
    ELSE IF directory = None
    THEN /\ last' = Raised("initialize", None, "join", "AttributeError")
         /\ UNCHANGED <<session, tables>>
    ELSE /\ db_path' = PathJoin(directory, user)
         /\ db' = "connection"
         /\ last' = Returned("initialize", None, "connect", None)
         /\ UNCHANGED <<user, directory, tables>>

\* terminate(): commit and close.
terminate ==
    IF db = None
    THEN /\ last' = Returned("terminate", None, "skip", None)
         /\ UNCHANGED <<session, tables>>
    ELSE /\ db' = None
         /\ last' = Returned("terminate", None, "close", None)
         /\ UNCHANGED <<user, directory, db_path, tables>>

\* setUser without the guard on self.db.
SetUserUnguarded(u) ==
    /\ user' = u
    /\ last' = Returned("setUser", u, "set", None)
    /\ UNCHANGED <<directory, db_path, db, tables>>

setUser(u) ==
    IF db # None
    THEN /\ last' = Returned("setUser", u, "skip", None)
         /\ UNCHANGED <<session, tables>>
    ELSE /\ user' = u
         /\ last' = Returned("setUser", u, "set", None)
         /\ UNCHANGED <<directory, db_path, db, tables>>

getUser ==
    /\ last' = Returned("getUser", None, "get", user)
    /\ UNCHANGED <<session, tables>>

(***************************************************************************)
(* Write path.  A helper returns the tables it leaves and the exception    *)
(* that ended it (None: it ran to its end).  A failed statement changes    *)
(* nothing; the statements before it stay in the open transaction, which   *)
(* terminate() commits.                                                    *)
(***************************************************************************)
Tables(n, w, exception) ==
    [notifications |-> n, notifications_who |-> w, raised |-> exception]

\* _notificationExist binding the info itself, not json.dumps of it: no
\* stored info (a JSON text) equals it.
NotificationExistRawInfo(notification) ==
    Cardinality({row \in notifications :
                    /\ row.what = notification.what
                    /\ row.where = notification.where
                    /\ row.info = notification.info
                    /\ row.seen = 0}) > 0

\* _notificationExist without "AND seen = 0".
NotificationExistAnySeen(notification) ==
    Cardinality({row \in notifications :
                    /\ row.what = notification.what
                    /\ row.where = notification.where
                    /\ row.info = json_dumps(notification.info)}) > 0

\* SELECT COUNT(*) ... WHERE what = ? AND where = ? AND info = ? AND seen = 0
_notificationExist(notification) ==
    Cardinality({row \in notifications :
                    /\ row.what = notification.what
                    /\ row.where = notification.where
                    /\ row.info = json_dumps(notification.info)
                    /\ row.seen = 0}) > 0

\* The rows of the SELECT `when` that opens _updateNotification.
UpdateSelected(notification) ==
    {row \in notifications :
        /\ row.what = notification.what
        /\ row.where = notification.where
        /\ row.seen = 0}

\* The loop of _updateNotification from the i-th actor on: each INSERT uses
\* the incoming notification's own timestamp, and an IntegrityError (the row
\* is there already) is passed over.
RECURSIVE UpdateWho(_, _, _)
UpdateWho(w, notification, i) ==
    IF i > Len(notification.who) THEN w
    ELSE UpdateWho(w \cup {WhoRow(notification, notification.who[i])},
                   notification, i + 1)

\* fetchone() of no row is None, and None['when'] a TypeError.
_updateNotification(notification) ==
    IF UpdateSelected(notification) = {}
    THEN Tables(notifications, notifications_who, "TypeError")
    ELSE Tables(notifications,
                UpdateWho(notifications_who, notification, 1), None)

\* The loop of _createNotification from the i-th actor on: the first INSERT
\* of a row that is there already raises IntegrityError and ends the loop.
RECURSIVE CreateWho(_, _, _, _)
CreateWho(n, w, notification, i) ==
    IF i > Len(notification.who) THEN Tables(n, w, None)
    ELSE IF WhoRow(notification, notification.who[i]) \in w
    THEN Tables(n, w, "IntegrityError")
    ELSE CreateWho(n, w \cup {WhoRow(notification, notification.who[i])},
                   notification, i + 1)

\* _createNotification with INSERT OR REPLACE: a row under the key is
\* replaced, not refused.
CreateNotificationReplacing(notification) ==
    CreateWho({row \in notifications :
                  Key(row) # Key(NotificationRow(notification))}
                  \cup {NotificationRow(notification)},
              notifications_who, notification, 1)

_createNotification(notification) ==
    IF \E row \in notifications : Key(row) = Key(NotificationRow(notification))
    THEN Tables(notifications, notifications_who, "IntegrityError")
    ELSE CreateWho(notifications \cup {NotificationRow(notification)},
                   notifications_who, notification, 1)

storeNotification(notification) ==
    IF db = None
    THEN /\ last' = Returned("storeNotification", notification, "closed", None)
         /\ UNCHANGED <<session, tables>>
    ELSE LET exist == _notificationExist(notification)
             t == IF exist THEN _updateNotification(notification)
                  ELSE _createNotification(notification)
             path == IF t.raised = "IntegrityError" THEN "IntegrityError"
                     ELSE IF exist THEN "update" ELSE "create"
         IN /\ notifications' = t.notifications
            /\ notifications_who' = t.notifications_who
            /\ last' = IF t.raised \in {None, "IntegrityError"}
                       THEN Returned("storeNotification", notification, path, None)
                       ELSE Raised("storeNotification", notification, path, t.raised)
            /\ UNCHANGED <<session, subscriptions>>

\* DELETE FROM notifications WHERE what = ? AND when = ? AND where = ?
removeNotification(notification) ==
    IF db = None
    THEN /\ last' = Returned("removeNotification", notification, "closed", None)
         /\ UNCHANGED <<session, tables>>
    ELSE /\ notifications' =
              {row \in notifications :
                  Key(row) # Key(NotificationRow(notification))}
         /\ last' = Returned("removeNotification", notification, "delete", None)
         /\ UNCHANGED <<session, notifications_who, subscriptions>>

\* setSeen with WHERE `where` LIKE '<path>%', the pattern of saveSubscription.
SetSeenUnder(path) ==
    IF db = None
    THEN /\ last' = Raised("setSeen", path, "closed", "AttributeError")
         /\ UNCHANGED <<session, tables>>
    ELSE /\ notifications' =
              {IF path = NoPath \/ Like(row.where, path \o <<"%">>)
               THEN [row EXCEPT !.seen = 1] ELSE row : row \in notifications}
         /\ last' = Returned("setSeen", path, "update", None)
         /\ UNCHANGED <<session, notifications_who, subscriptions>>

\* self.db.execute with self.db None: AttributeError.
setSeen(path) ==
    IF db = None
    THEN /\ last' = Raised("setSeen", path, "closed", "AttributeError")
         /\ UNCHANGED <<session, tables>>
    ELSE /\ notifications' =
              {IF path = NoPath \/ row.where = path
               THEN [row EXCEPT !.seen = 1] ELSE row : row \in notifications}
         /\ last' = Returned("setSeen", path, "update", None)
         /\ UNCHANGED <<session, notifications_who, subscriptions>>

\* "REMOVE FROM notifications ..." is no SQL statement: sqlite3 raises
\* OperationalError (syntax error) and deletes nothing.  `now` is
\* datetime.datetime.now().
clean(now) ==
    IF db = None
    THEN /\ last' = Raised("clean", now, "closed", "AttributeError")
         /\ UNCHANGED <<session, tables>>
    ELSE /\ last' = Raised("clean", now, "execute", "OperationalError")
         /\ UNCHANGED <<session, tables>>

(***************************************************************************)
(* Subscriptions.                                                          *)
(***************************************************************************)
\* The try block of saveSubscription with `pass` for the UPDATE of the
\* except clause: a taken `where` keeps its row.
SavedSubscriptionsInsertOnly(subscription) ==
    IF subscription.wants = None
    THEN {row \in subscriptions : row.where # subscription.where}
    ELSE IF \E row \in subscriptions : row.where = subscription.where
    THEN subscriptions
    ELSE subscriptions \cup {[where |-> subscription.where,
                              wants |-> BindBool(subscription.wants)]}

\* The try block of saveSubscription: DELETE for wants None, else INSERT
\* and, when the primary key `where` is taken (IntegrityError), UPDATE.
SavedSubscriptions(subscription) ==
    IF subscription.wants = None
    THEN {row \in subscriptions : row.where # subscription.where}
    ELSE IF \E row \in subscriptions : row.where = subscription.where
    THEN {IF row.where = subscription.where
          THEN [row EXCEPT !.wants = BindBool(subscription.wants)]
          ELSE row : row \in subscriptions}
    ELSE subscriptions \cup {[where |-> subscription.where,
                              wants |-> BindBool(subscription.wants)]}

\* DELETE FROM notifications WHERE where LIKE '<subscription.where>%',
\* run when `not subscription.wants`.
CascadedNotifications(subscription) ==
    IF subscription.wants = True THEN notifications
    ELSE {row \in notifications :
             ~Like(row.where, subscription.where \o <<"%">>)}

\* The event saveSubscription notifies.
NotifiedEvent(subscription) ==
    IF subscription.wants = True THEN "SubscribedEvent"
    ELSE "BlacklistedEvent"

saveSubscription(subscription) ==
    IF db = None
    THEN /\ last' = Raised("saveSubscription", subscription, "closed", "AttributeError")
         /\ UNCHANGED <<session, tables>>
    ELSE /\ subscriptions' = SavedSubscriptions(subscription)
         /\ notifications' = CascadedNotifications(subscription)
         /\ last' = Returned("saveSubscription", subscription,
                             IF subscription.wants = True THEN "keep"
                             ELSE "cascade",
                             NotifiedEvent(subscription))
         /\ UNCHANGED <<session, notifications_who>>

_createSubscriptionFromResult(result) ==
    [where |-> result.where,
     wants |-> IF result.wants = 1 THEN True ELSE False]

\* SELECT * FROM subscriptions WHERE where = ?: at most one row, `where`
\* being the primary key.  The result is <<>> for None, else <<s>>.
getSubscription(where) ==
    IF db = None
    THEN /\ last' = Raised("getSubscription", where, "closed", "AttributeError")
         /\ UNCHANGED <<session, tables>>
    ELSE /\ \E results \in
                {<<>>} \cup {<<_createSubscriptionFromResult(row)>> :
                              row \in {r \in subscriptions : r.where = where}} :
              /\ (results = <<>>) =
                     ({r \in subscriptions : r.where = where} = {})
              /\ last' = Returned("getSubscription", where, "select", results)
         /\ UNCHANGED <<session, tables>>

(***************************************************************************)
(* Read path.                                                              *)
(***************************************************************************)
\* ORDER BY n.seen ASC, n.when DESC ("hot"), ORDER BY n.when DESC ("when")
\* or no ORDER BY ("none"): whether row a must come before row b.
Before(by, a, b) ==
    CASE by = "hot" -> a.seen < b.seen \/ (a.seen = b.seen /\ a.when > b.when)
      [] by = "when" -> a.when > b.when
      [] OTHER -> FALSE

\* The orders in which a query may return the rows S: every sequence of all
\* of S in which no row stands after one that Before puts behind it.  Rows
\* the ORDER BY does not tell apart come in any order.
RECURSIVE Orders(_, _)
Orders(S, by) ==
    IF S = {} THEN {<<>>}
    ELSE UNION {{<<m>> \o t : t \in Orders(S \ {m}, by)} :
                   m \in {x \in S : \A y \in S : ~Before(by, y, x)}}

\* GROUP_CONCAT(nw.who, ', ') over the who rows joined to a row, then
\* _createNotificationFromResult's split(', '): the actors, as a set
\* (SQLite fixes no order); a NULL (no who row) gives [].
JoinedWho(row) == {w.who : w \in {x \in notifications_who : Key(x) = Key(row)}}

_createNotificationFromResult(row) ==
    [what |-> row.what,
     where |-> row.where,
     when |-> fromtimestamp(row.when),
     who |-> JoinedWho(row),
     user |-> user,
     gatherer |-> row.gatherer,
     seen |-> row.seen,
     info |-> json_loads(row.info)]

Prefix(seq, k) == SubSeq(seq, 1, IF Len(seq) < k THEN Len(seq) ELSE k)

MapSeq(seq, Op(_)) == [i \in 1..Len(seq) |-> Op(seq[i])]

\* The hot query ordered by `when` alone.
HotResultsByWhen ==
    {MapSeq(Prefix(o, HotLimit), _createNotificationFromResult) :
        o \in Orders(notifications, "when")}

\* LEFT JOIN ... GROUP BY key ORDER BY seen ASC, when DESC LIMIT 5
HotResults ==
    {MapSeq(Prefix(o, HotLimit), _createNotificationFromResult) :
        o \in Orders(notifications, "hot")}

\* The all query with the LEFT JOIN of the hot query.
AllResultsLeftJoin ==
    {MapSeq(o, _createNotificationFromResult) :
        o \in Orders(notifications, "when")}

\* INNER JOIN: only the rows with a who row.
AllResults ==
    {MapSeq(o, _createNotificationFromResult) :
        o \in Orders({row \in notifications : JoinedWho(row) # {}},
                     "when")}

UnseenResults ==
    {MapSeq(o, _createNotificationFromResult) :
        o \in Orders({row \in notifications :
                         JoinedWho(row) # {} /\ row.seen = 0}, "when")}

getHotNotifications ==
    /\ \E results \in IF db = None THEN {<<>>} ELSE HotResults :
          last' = Returned("getHotNotifications", None,
                           IF db = None THEN "closed" ELSE "select", results)
    /\ UNCHANGED <<session, tables>>

getAllNotifications ==
    /\ \E results \in IF db = None THEN {<<>>} ELSE AllResults :
          last' = Returned("getAllNotifications", None,
                           IF db = None THEN "closed" ELSE "select", results)
    /\ UNCHANGED <<session, tables>>

getUnseenNotifications ==
    /\ \E results \in IF db = None THEN {<<>>} ELSE UnseenResults :
          last' = Returned("getUnseenNotifications", None,
                           IF db = None THEN "closed" ELSE "select", results)
    /\ UNCHANGED <<session, tables>>

UnseenCount == Cardinality({row \in notifications : row.seen = 0})

getUnseenCount ==
    /\ last' = IF db = None THEN Returned("getUnseenCount", None, "closed", 0)
               ELSE Returned("getUnseenCount", None, "select", UnseenCount)
    /\ UNCHANGED <<session, tables>>

\* SELECT * FROM subscriptions, in any order.
getSubscriptions ==
    IF db = None
    THEN /\ last' = Raised("getSubscriptions", None, "closed", "AttributeError")
         /\ UNCHANGED <<session, tables>>
    ELSE /\ \E results \in Orders(subscriptions, "none") :
              last' = Returned("getSubscriptions", None, "select",
                               MapSeq(results, _createSubscriptionFromResult))
         /\ UNCHANGED <<session, tables>>

\* getLastNotificationTime with ORDER BY `when` ASC.
LastNotificationTimeAscending(now) ==
    /\ last' =
          IF db = None
          THEN Returned("getLastNotificationTime", now, "closed", now - Retention)
          ELSE IF notifications = {}
          THEN Returned("getLastNotificationTime", now, "empty", now - Retention)
          ELSE Returned("getLastNotificationTime", now, "select",
                        fromtimestamp(
                            CHOOSE t \in {row.when : row \in notifications} :
                                \A row \in notifications : row.when >= t))
    /\ UNCHANGED <<session, tables>>

\* The bare except turns every failure (self.db None, fetchone() None) into
\* now minus 7 days.  `now` is datetime.datetime.now().
getLastNotificationTime(now) ==
    /\ last' =
          IF db = None
          THEN Returned("getLastNotificationTime", now, "closed", now - Retention)
          ELSE IF notifications = {}
          THEN Returned("getLastNotificationTime", now, "empty", now - Retention)
          ELSE Returned("getLastNotificationTime", now, "select",
                        fromtimestamp(
                            CHOOSE t \in {row.when : row \in notifications} :
                                \A row \in notifications : row.when <= t))
    /\ UNCHANGED <<session, tables>>

\* What the store file does to the statements of a validateBackend() call:
\* None (they run), or the statement that raises - sqlite3.connect (the
\* file cannot be opened), the first CREATE TABLE (the file is no database,
\* or another process holds its lock) or the hot-notifications SELECT.
StoreFaults == {None, "connect", "create", "select"}

\* validateBackend(): initialize(), getHotNotifications(), terminate() in
\* one try; every exception is logged and False returned.  The except
\* clause does not call terminate(): self.db stays as the failed statement
\* left it.  self.db_path is assigned before sqlite3.connect, self.db by it.
validateBackend(fault) ==
    IF db # None \/ user = None
    THEN \* initialize() returns at once
         IF db # None /\ fault = "select"
         THEN /\ last' = Returned("validateBackend", fault, "except", False)
              /\ UNCHANGED <<session, tables>>
         ELSE /\ db' = None
              /\ last' = Returned("validateBackend", fault, "try", True)
              /\ UNCHANGED <<user, directory, db_path, tables>>
    ELSE IF directory = None
    THEN /\ last' = Returned("validateBackend", fault, "except", False)
         /\ UNCHANGED <<session, tables>>
    ELSE /\ db_path' = PathJoin(directory, user)
         /\ db' = IF fault \in {"create", "select"} THEN "connection" ELSE None
         /\ last' = IF fault = None
                    THEN Returned("validateBackend", fault, "try", True)
                    ELSE Returned("validateBackend", fault, "except", False)
         /\ UNCHANGED <<user, directory, tables>>

(***************************************************************************)
(* The backend under any caller.                                           *)
(***************************************************************************)
\* The tables within the model's bound.
WithinBounds ==
    Cardinality(notifications) + Cardinality(notifications_who)
        + Cardinality(subscriptions) <= MaxRows

Next ==
    \/ initialize
    \/ terminate
    \/ \E fault \in StoreFaults : validateBackend(fault)
    \/ \E u \in Users : setUser(u)
    \/ getUser
    \/ \E notification \in GatheredNotifications :
          storeNotification(notification) /\ WithinBounds'
    \/ \E notification \in RemoveArguments : removeNotification(notification)
    \/ \E path \in Wheres \cup {NoPath} : setSeen(path)
    \/ \E now \in Clock : clean(now)
    \/ \E subscription \in Subscriptions :
          saveSubscription(subscription) /\ WithinBounds'
    \/ \E where \in SubWheres : getSubscription(where)
    \/ getSubscriptions
    \/ getHotNotifications
    \/ getAllNotifications
    \/ getUnseenNotifications
    \/ getUnseenCount
    \/ \E now \in Clock : getLastNotificationTime(now)

Spec == Init /\ [][Next]_vars

(***************************************************************************)
(* The write path of one session: a caller that opens the session and      *)
(* stores, marks and removes notifications about one path.                 *)
(***************************************************************************)
NextWrite ==
    \/ initialize
    \/ \E notification \in WriteNotifications :
          storeNotification(notification) /\ WithinBounds'
    \/ \E notification \in RemoveArguments : removeNotification(notification)
    \/ \E path \in {PathA, NoPath} : setSeen(path)

SpecWrite == Init /\ [][NextWrite]_vars

(***************************************************************************)
(* The hot-notifications query of one session: a caller that opens the     *)
(* session, stores notifications and asks for the hot ones.                *)
(***************************************************************************)
NextHot ==
    \/ initialize
    \/ \E notification \in HotNotifications : storeNotification(notification)
    \/ getHotNotifications

SpecHot == Init /\ [][NextHot]_vars

(***************************************************************************)
(* The list queries of one session: a caller that opens the session,       *)
(* stores notifications with and without actors and asks for the hot, all  *)
(* and unseen ones.                                                        *)
(***************************************************************************)
NextRead ==
    \/ initialize
    \/ \E notification \in ReadNotifications : storeNotification(notification)
    \/ getHotNotifications
    \/ getAllNotifications
    \/ getUnseenNotifications

SpecRead == Init /\ [][NextRead]_vars

(***************************************************************************)
(* The last notification time over sessions: a caller that opens and       *)
(* closes sessions, stores notifications and asks for the time of the last *)
(* one, with the session open or closed.                                   *)
(***************************************************************************)
NextTime ==
    \/ initialize
    \/ terminate
    \/ \E notification \in TimeNotifications : storeNotification(notification)
    \/ \E notification \in RemoveArguments : removeNotification(notification)
    \/ \E now \in Clock : getLastNotificationTime(now)

SpecTime == Init /\ [][NextTime]_vars

(***************************************************************************)
(* The request handlers (browser/notifications.py).  Each request builds   *)
(* its own storage (here: the SQL engine, closed), so a handler starts on  *)
(* a closed session.  update() calls initialize(), updateNotifications(),  *)
(* the read query and terminate() in a row, with no try around them: the   *)
(* first call that raises ends the handler where it stands.                *)
(***************************************************************************)
\* The tables after updateNotifications() stored the gathered list.
Updated(gathered) ==
    IF gathered.none = True \/ gathered.list = <<>>
    THEN Tables(notifications, notifications_who, None)
    ELSE IF _notificationExist(gathered.list[1])
    THEN _updateNotification(gathered.list[1])
    ELSE _createNotification(gathered.list[1])

\* The handler left at the call that raised, the session as it stands.
Left(view, arg, call, exception) ==
    /\ last' = Raised(view, arg, call, exception)
    /\ UNCHANGED <<user, directory, tables>>

update(view, gathered, fault, now) ==
    LET arg == [gathered |-> gathered, fault |-> fault, now |-> now]
        stores == gathered.none = False /\ gathered.list # <<>>
    IN /\ db = None
       /\ IF user = None
          THEN \* initialize() opens nothing: every call is a no-op
               IF fault = "getNewNotifications"
               THEN Left(view, arg, fault, "Exception")
                    /\ UNCHANGED <<db_path, db>>
               ELSE /\ last' = Returned(view, arg, "closed", <<>>)
                    /\ UNCHANGED <<session, tables>>
          ELSE IF directory = None
          THEN Left(view, arg, "initialize", "AttributeError")
               /\ UNCHANGED <<db_path, db>>
          ELSE /\ db_path' = PathJoin(directory, user)
               /\ IF fault = "getNewNotifications"
                  THEN db' = "connection"
                       /\ Left(view, arg, fault, "Exception")
                  ELSE IF fault = "storeNotification" /\ stores
                  THEN db' = "connection"
                       /\ Left(view, arg, fault, "OperationalError")
                  ELSE /\ notifications' = Updated(gathered).notifications
                       /\ notifications_who' =
                              Updated(gathered).notifications_who
                       /\ UNCHANGED <<user, directory, subscriptions>>
                       /\ IF fault = "read"
                          THEN /\ db' = "connection"
                               /\ last' = Raised(view, arg, fault,
                                                 "OperationalError")
                          ELSE /\ db' = None
                               /\ \E results \in
                                      IF view = "AllView.update"
                                      THEN AllResults' ELSE HotResults' :
                                     last' = Returned(view, arg, "terminate",
                                                      results)

AllView_update(gathered, fault, now) ==
    update("AllView.update", gathered, fault, now)

\* HotViewlet.update returns before it builds a storage when the visitor is
\* anonymous.
HotViewlet_update(gathered, fault, now) ==
    IF user = None
    THEN /\ db = None
         /\ last' = Returned("HotViewlet.update",
                             [gathered |-> gathered, fault |-> fault,
                              now |-> now], "anonymous", <<>>)
         /\ UNCHANGED <<session, tables>>
    ELSE update("HotViewlet.update", gathered, fault, now)

NextRequest ==
    \/ \E gathered \in GatheredResults, fault \in RequestFaults, now \in Clock :
          AllView_update(gathered, fault, now)
    \/ \E gathered \in GatheredResults, fault \in RequestFaults, now \in Clock :
          HotViewlet_update(gathered, fault, now)

SpecRequest == Init /\ [][NextRequest]_vars

(***************************************************************************)
(* Seen marking of one session: a caller that opens the session, stores    *)
(* notifications at a path and under it, marks them seen and asks for the  *)
(* unseen ones.                                                            *)
(***************************************************************************)
NextSeen ==
    \/ initialize
    \/ \E notification \in TimeNotifications : storeNotification(notification)
    \/ \E path \in Wheres \cup {NoPath} : setSeen(path)
    \/ getUnseenCount
    \/ getUnseenNotifications

SpecSeen == Init /\ [][NextSeen]_vars

(***************************************************************************)
(* The subscriptions of one session: a caller that opens the session,      *)
(* saves and revokes subscriptions and reads them back.                    *)
(***************************************************************************)
NextSubscription ==
    \/ initialize
    \/ \E subscription \in Subscriptions : saveSubscription(subscription)
    \/ \E where \in SubWheres : getSubscription(where)
    \/ getSubscriptions

SpecSubscription == Init /\ [][NextSubscription]_vars

(***************************************************************************)
(* The session lifecycle alone: a caller that binds users, opens, probes   *)
(* and closes sessions and stores nothing.                                 *)
(***************************************************************************)
NextSession ==
    \/ initialize
    \/ terminate
    \/ \E fault \in StoreFaults : validateBackend(fault)
    \/ \E u \in SessionUsers : setUser(u)
    \/ getUser

SpecSession == Init /\ [][NextSession]_vars

(***************************************************************************)
(* The Null engine (NullBackend): it has no attribute and touches no       *)
(* store; every method returns a constant.  As for the SQL engine, None    *)
(* from getSubscription is the result <<>>.                                *)
(***************************************************************************)
NullCall(op, arg, result) ==
    /\ last' = Returned(op, arg, "null", result)
    /\ UNCHANGED <<session, tables>>

Null_initialize == NullCall("initialize", None, None)
Null_terminate == NullCall("terminate", None, None)
Null_validateBackend == NullCall("validateBackend", None, True)
Null_setUser(u) == NullCall("setUser", u, None)
Null_getUser == NullCall("getUser", None, "")
Null_storeNotification(notification) == NullCall("storeNotification", notification, None)
Null_removeNotification(notification) == NullCall("removeNotification", notification, None)
Null_getHotNotifications == NullCall("getHotNotifications", None, <<>>)
Null_getAllNotifications == NullCall("getAllNotifications", None, <<>>)
Null_getUnseenNotifications == NullCall("getUnseenNotifications", None, <<>>)
Null_setSeen(path) == NullCall("setSeen", path, None)
Null_getUnseenCount == NullCall("getUnseenCount", None, 0)
Null_clean == NullCall("clean", None, None)
Null_saveSubscription(subscription) == NullCall("saveSubscription", subscription, None)
Null_getSubscription(where) == NullCall("getSubscription", where, <<>>)
Null_getSubscriptions == NullCall("getSubscriptions", None, <<>>)

\* NullBackend.getLastNotificationTime with the SQL engine's default.
NullLastNotificationTimeDefault(now) ==
    NullCall("getLastNotificationTime", now, now - Retention)

\* return datetime.datetime.now()
Null_getLastNotificationTime(now) ==
    NullCall("getLastNotificationTime", now, now)

NextNull ==
    \/ Null_initialize
    \/ Null_terminate
    \/ Null_validateBackend
    \/ \E u \in Users : Null_setUser(u)
    \/ Null_getUser
    \/ \E notification \in Notifications : Null_storeNotification(notification)
    \/ \E notification \in RemoveArguments :
          Null_removeNotification(notification)
    \/ Null_getHotNotifications
    \/ Null_getAllNotifications
    \/ Null_getUnseenNotifications
    \/ \E path \in Wheres \cup {NoPath} : Null_setSeen(path)
    \/ Null_getUnseenCount
    \/ \E now \in Clock : Null_getLastNotificationTime(now)
    \/ Null_clean
    \/ \E subscription \in Subscriptions : Null_saveSubscription(subscription)
    \/ \E where \in SubWheres : Null_getSubscription(where)
    \/ Null_getSubscriptions

SpecNull == Init /\ [][NextNull]_vars

(***************************************************************************)
(* Vocabulary of the properties.                                           *)
(***************************************************************************)
Range(seq) == {seq[i] : i \in 1..Len(seq)}

\* Row and notification n are the same event: same what, where and info.
SameEvent(row, n) ==
    /\ row.what = n.what
    /\ row.where = n.where
    /\ json_loads(row.info) = n.info

\* The unseen (seen) notifications among `rows` that are the same event
\* as n; those stored.
UnseenSameIn(rows, n) == {row \in rows : SameEvent(row, n) /\ row.seen = 0}
UnseenSame(n) == UnseenSameIn(notifications, n)
SeenSame(n) == {row \in notifications : SameEvent(row, n) /\ row.seen = 1}

\* The rows under the key (n.what, n.when, n.where).
RowsAt(n) ==
    {row \in notifications : Key(row) = Key(NotificationRow(n))}
WhoRowsAt(n) ==
    {row \in notifications_who : Key(row) = Key(NotificationRow(n))}

\* The step is a call of `op` on an open session.
OpenCall(op) == db # None /\ last'.op = op

(***************************************************************************)
(* C1 - Actor union on merge.  Storing n on an open session while an       *)
(* unseen notification e of the same (what, where, info) is stored leaves  *)
(* exactly one unseen event of that (what, where, info), and the who of e  *)
(* becomes its previous actors united with n.who - whatever n.when is.     *)
(***************************************************************************)
C1_ActorUnion ==
    [][OpenCall("storeNotification") =>
          \A e \in UnseenSame(last'.arg) :
              /\ UnseenSameIn(notifications', last'.arg) = {e}
              /\ JoinedWho(e)' = JoinedWho(e) \cup Range(last'.arg.who)]_vars

(***************************************************************************)
(* C2 - Merge idempotence.  With an unseen notification e whose who is     *)
(* {A} stored, storing a notification of the same (what, where, info) by   *)
(* the single actor A changes no notification row, leaves e the one        *)
(* unseen event of that (what, where, info), and leaves its who {A}.       *)
(***************************************************************************)
C2_MergeIdempotence ==
    [][(OpenCall("storeNotification") /\ Len(last'.arg.who) = 1) =>
          \A e \in UnseenSame(last'.arg) :
              JoinedWho(e) = Range(last'.arg.who) =>
                  /\ notifications' = notifications
                  /\ UnseenSameIn(notifications', last'.arg) = {e}
                  /\ JoinedWho(e)' = Range(last'.arg.who)]_vars

\* The second store of a notification by the single actor A has merged.
C2_Witness ==
    /\ db # None
    /\ last.op = "storeNotification"
    /\ last.path = "update"
    /\ Len(last.arg.who) = 1
    /\ \E e \in UnseenSame(last.arg) :
          /\ e.when = getWhenTimestamp(last.arg)
          /\ JoinedWho(e) = Range(last.arg.who)
          /\ notifications = {e}

(***************************************************************************)
(* C3 - Seen isolation from merge.  As claimed: when every stored          *)
(* notification of n's (what, where, info) is seen, storing n adds one     *)
(* notification row and leaves the seen events' actors alone, for every    *)
(* n.when.                                                                 *)
(***************************************************************************)
C3_SeenIsolation_AnyWhen ==
    [][(OpenCall("storeNotification")
            /\ SeenSame(last'.arg) # {} /\ UnseenSame(last'.arg) = {}) =>
          /\ Cardinality(notifications')
                 = Cardinality(notifications) + 1
          /\ \A e \in SeenSame(last'.arg) :
                 e \in notifications' /\ JoinedWho(e)' = JoinedWho(e)]_vars

(***************************************************************************)
(* C3, amended.  When every stored notification of n's (what, where,       *)
(* info) is seen, storing n adds the row of n and nothing else, and leaves *)
(* the seen events' actors alone, provided no stored row has n's (what,    *)
(* when, where); when a stored row has that key - n.when is the seen       *)
(* event's when, say - no row is added and both tables stay as they were.  *)
(***************************************************************************)
C3_SeenIsolation ==
    [][(OpenCall("storeNotification")
            /\ SeenSame(last'.arg) # {} /\ UnseenSame(last'.arg) = {}) =>
          IF RowsAt(last'.arg) = {}
          THEN /\ NotificationRow(last'.arg) \notin notifications
               /\ notifications'
                      = notifications \cup {NotificationRow(last'.arg)}
               /\ \A e \in SeenSame(last'.arg) :
                      JoinedWho(e)' = JoinedWho(e)
          ELSE /\ notifications' = notifications
               /\ notifications_who' = notifications_who]_vars

\* A notification was stored beside the seen one of the same event.
C3_Witness ==
    /\ db # None
    /\ last.op = "storeNotification"
    /\ last.path = "create"
    /\ NotificationRow(last.arg) \in notifications
    /\ \E e \in SeenSame(last.arg) :
          /\ e.when # getWhenTimestamp(last.arg)
          /\ JoinedWho(e) # {}
          /\ JoinedWho(e) # JoinedWho(NotificationRow(last.arg))

(***************************************************************************)
(* C4 - Subscription cascade.  saveSubscription(s) on an open session      *)
(* with s.wants false or None leaves exactly the notifications whose where *)
(* does not start with s.where; with s.wants true it deletes none.         *)
(***************************************************************************)
StartsWith(str, prefix) ==
    Len(prefix) <= Len(str) /\ SubSeq(str, 1, Len(prefix)) = prefix

C4_SubscriptionCascade ==
    [][OpenCall("saveSubscription") =>
          notifications' =
              IF last'.arg.wants = True THEN notifications
              ELSE {row \in notifications :
                       ~StartsWith(row.where, last'.arg.where)}]_vars

(***************************************************************************)
(* C5 - Blacklisted paths keep no history.  No stored notification has a   *)
(* where that starts with the where of a subscription whose wants is       *)
(* false.                                                                  *)
(***************************************************************************)
C5_NoBlacklistedHistory ==
    \A s \in subscriptions : \A row \in notifications :
        s.wants = 0 => ~StartsWith(row.where, s.where)

(***************************************************************************)
(* C6 - Non-empty actor set.  Every row of notifications has at least one  *)
(* row of notifications_who under its key.                                 *)
(***************************************************************************)
C6_NonEmptyWho == \A row \in notifications : JoinedWho(row) # {}

(***************************************************************************)
(* C7 - Closed engine degrades to no-op.  A public operation called while  *)
(* the session is not open raises nothing, leaves the tables as they are   *)
(* and, when it is a read, returns the empty result.                       *)
(***************************************************************************)
PublicOperations ==
    {"storeNotification", "removeNotification", "getHotNotifications",
     "getAllNotifications", "getUnseenNotifications", "getUnseenCount",
     "getLastNotificationTime", "setSeen", "clean", "saveSubscription",
     "getSubscription", "getSubscriptions"}

C7_ClosedNoOp ==
    [][(db = None /\ last'.op \in PublicOperations) =>
          /\ last'.raised = None
          /\ notifications' = notifications
          /\ notifications_who' = notifications_who
          /\ subscriptions' = subscriptions
          /\ last'.op \in {"getHotNotifications", "getAllNotifications",
                           "getUnseenNotifications", "getSubscription",
                           "getSubscriptions"} => last'.result = <<>>
          /\ last'.op = "getUnseenCount" => last'.result = 0]_vars

(***************************************************************************)
(* C8 - Hot ordering.  On an open session getHotNotifications() returns    *)
(* min(5, N) events of N stored rows, each of another row; unseen events   *)
(* come before seen ones and, among events of one seen flag, later ones    *)
(* first; no row left out sorts before a returned event.                   *)
(***************************************************************************)
\* Event a sorts before event b: unseen first, then newest first.
SortsBefore(a, b) == a.seen < b.seen \/ (a.seen = b.seen /\ a.when > b.when)

\* The event of a stored row, as far as the order goes.
Ranked(row) == [seen |-> row.seen, when |-> fromtimestamp(row.when)]

\* The stored rows an event of a result stands for.
RowsOf(event) ==
    {row \in notifications :
        /\ row.what = event.what
        /\ row.where = event.where
        /\ fromtimestamp(row.when) = event.when
        /\ row.seen = event.seen}

C8_HotOrdering ==
    (db # None /\ last.op = "getHotNotifications") =>
        /\ Len(last.result) =
               IF Cardinality(notifications) < HotLimit
               THEN Cardinality(notifications) ELSE HotLimit
        /\ \A i \in 1..Len(last.result) :
               /\ Cardinality(RowsOf(last.result[i])) = 1
               /\ \A j \in 1..Len(last.result) :
                      /\ i # j => last.result[i] # last.result[j]
                      /\ i < j => ~SortsBefore(last.result[j], last.result[i])
        /\ \A row \in notifications :
               (\A i \in 1..Len(last.result) : row \notin RowsOf(last.result[i]))
                   => \A i \in 1..Len(last.result) :
                          ~SortsBefore(Ranked(row), last.result[i])

\* Six rows of both seen flags are stored and five events came back.
C8_Witness ==
    /\ db # None
    /\ last.op = "getHotNotifications"
    /\ Cardinality(notifications) > HotLimit
    /\ Len(last.result) = HotLimit
    /\ \E i, j \in 1..Len(last.result) :
          last.result[i].seen = 0 /\ last.result[j].seen = 1

(***************************************************************************)
(* C9 - removeNotification cascade.  After removeNotification(n) on an     *)
(* open session no row of notifications and no row of notifications_who    *)
(* has the key (n.what, n.when, n.where), every other row is unchanged,    *)
(* and nothing is raised.                                                  *)
(***************************************************************************)
C9_RemoveCascade ==
    [][OpenCall("removeNotification") =>
          /\ last'.raised = None
          /\ notifications' = notifications \ RowsAt(last'.arg)
          /\ notifications_who' = notifications_who \ WhoRowsAt(last'.arg)
          /\ subscriptions' = subscriptions]_vars

(***************************************************************************)
(* C10 - Retention.  clean() on an open session raises nothing and leaves  *)
(* exactly the notifications whose timestamp is at or after now minus 7    *)
(* days.                                                                   *)
(***************************************************************************)
C10_Retention ==
    [][OpenCall("clean") =>
          /\ last'.raised = None
          /\ notifications' =
                 {row \in notifications :
                     row.when >= (last'.arg - Retention) * SecondsPerDay}]_vars

(***************************************************************************)
(* C11 - All excludes actor-less events, hot includes them.  A stored row  *)
(* without a row of notifications_who is no event of the result of         *)
(* getAllNotifications() or getUnseenNotifications(); it is an event, with *)
(* an empty who, of the result of getHotNotifications() whenever fewer     *)
(* than 5 other rows sort before it or level with it by (seen ascending,   *)
(* when descending).                                                       *)
(***************************************************************************)
\* The rows without an actor.
ActorLess == {row \in notifications : JoinedWho(row) = {}}

\* The rows other than `row` that the hot order does not put behind it.
NotBehind(row) ==
    {other \in notifications \ {row} : ~SortsBefore(Ranked(row), Ranked(other))}

C11_ActorLessEvents ==
    /\ (db # None
            /\ last.op \in {"getAllNotifications", "getUnseenNotifications"}) =>
           \A row \in ActorLess : \A i \in 1..Len(last.result) :
               row \notin RowsOf(last.result[i])
    /\ (db # None /\ last.op = "getHotNotifications") =>
           \A row \in ActorLess :
               Cardinality(NotBehind(row)) < HotLimit =>
                   \E i \in 1..Len(last.result) :
                       /\ row \in RowsOf(last.result[i])
                       /\ last.result[i].who = {}

\* Six rows are stored, the hot query returned an actor-less one among
\* events with actors and left a row out.
C11_Witness ==
    /\ db # None
    /\ last.op = "getHotNotifications"
    /\ Cardinality(notifications) > HotLimit
    /\ \E i, j \in 1..Len(last.result) :
          last.result[i].who = {} /\ last.result[j].who # {}
    /\ \E row \in ActorLess : Cardinality(NotBehind(row)) >= HotLimit

(***************************************************************************)
(* C12 - Last notification time.  getLastNotificationTime() raises         *)
(* nothing; on an open session with stored rows it returns the latest      *)
(* `when` of the rows; on an empty store or a closed session it returns    *)
(* now minus 7 days, which is not now.                                     *)
(***************************************************************************)
C12_LastNotificationTime ==
    last.op = "getLastNotificationTime" =>
        /\ last.raised = None
        /\ IF db # None /\ notifications # {}
           THEN /\ \E row \in notifications :
                      last.result = fromtimestamp(row.when)
                /\ \A row \in notifications :
                      fromtimestamp(row.when) <= last.result
           ELSE /\ last.result = last.arg - Retention
                /\ last.result # last.arg

\* The time of the later of two rows was returned.
C12_Witness ==
    /\ db # None
    /\ last.op = "getLastNotificationTime"
    /\ \E earlier, later \in notifications :
          /\ earlier.when < later.when
          /\ last.result = fromtimestamp(later.when)

\* The default was returned on a closed session whose store has rows.
C12_WitnessClosed ==
    /\ db = None
    /\ notifications # {}
    /\ last.op = "getLastNotificationTime"
    /\ last.result = last.arg - Retention

(***************************************************************************)
(* C13 - validateBackend is total and closes its session.                  *)
(* validateBackend() raises nothing, returns True exactly when no          *)
(* statement of initialize() and of the hot-notifications read raised,     *)
(* and leaves the session closed on every path.                            *)
(***************************************************************************)
C13_ValidateBackendCloses ==
    [][last'.op = "validateBackend" =>
          /\ last'.raised = None
          /\ (last'.result = True) = (last'.path = "try")
          /\ last'.result \in {True, False}
          /\ db' = None]_vars

(***************************************************************************)
(* C14 - Null-engine contract.  After any sequence of operations on the    *)
(* Null engine no operation has raised, no store has changed, and the      *)
(* last read returned its empty value: the list queries and                *)
(* getSubscriptions the empty list, getUnseenCount 0, getSubscription      *)
(* none, getLastNotificationTime now, validateBackend True.                *)
(***************************************************************************)
C14_NullContract ==
    /\ last.raised = None
    /\ db = None
    /\ tables = <<{}, {}, {}>>
    /\ last.op \in {"getHotNotifications", "getAllNotifications",
                     "getUnseenNotifications", "getSubscriptions",
                     "getSubscription"} => last.result = <<>>
    /\ last.op = "getUnseenCount" => last.result = 0
    /\ last.op = "getLastNotificationTime" => last.result = last.arg
    /\ last.op = "validateBackend" => last.result = True

\* The Null engine was asked for the last notification time.
C14_Witness ==
    /\ last.op = "getLastNotificationTime"
    /\ last.path = "null"
    /\ last.result \in Clock

(***************************************************************************)
(* C15 - User is fixed while the session is open.  setUser(u) binds u      *)
(* when the session is closed and changes nothing when it is open;         *)
(* initialize() on an open session changes nothing; initialize() with no   *)
(* user bound leaves the session closed; and whenever the session is open  *)
(* its store path is the one of the bound user.                            *)
(***************************************************************************)
C15_UserFixedWhileOpen ==
    [][/\ last'.op = "setUser" =>
              /\ user' = IF db = None THEN last'.arg ELSE user
              /\ UNCHANGED <<directory, db_path, db, tables>>
       /\ (last'.op = "initialize" /\ db # None) =>
              UNCHANGED <<session, tables>>
       /\ (last'.op = "initialize" /\ user = None) => db' = None
       /\ last'.op = "getUser" => last'.result = user
       /\ db' # None =>
              /\ user' # None
              /\ db_path' = PathJoin(directory', user')]_vars

\* setUser was called with another user on an open session.
C15_Witness ==
    /\ db # None
    /\ last.op = "setUser"
    /\ last.path = "skip"
    /\ last.arg # user
    /\ db_path = PathJoin(directory, user)

(***************************************************************************)
(* C16 - Request-scoped session.  When AllView.update or                   *)
(* HotViewlet.update ends - by returning or by an exception of the         *)
(* gatherer, of a storeNotification or of the read query - the session it  *)
(* opened is closed.                                                       *)
(***************************************************************************)
C16_RequestScopedSession ==
    [][last'.op \in {"AllView.update", "HotViewlet.update"} =>
          db' = None]_vars

C18_MergePreservesRows ==
    [][(OpenCall("storeNotification") /\ _notificationExist(last'.arg)) =>
          /\ notifications' = notifications
          /\ notifications_who \subseteq notifications_who'
          /\ \A added \in notifications_who' \ notifications_who :
                 \E e \in UnseenSame(last'.arg) : Key(added) = Key(e)]_vars

(***************************************************************************)
(* C19 - setSeen effect and frame.  setSeen on an open session adds and    *)
(* removes no notification and changes no actor row; a notification is     *)
(* seen afterwards when no path was given or its where equals the path,    *)
(* and keeps its seen flag otherwise (also when its where is merely under  *)
(* the path); after setSeen() without a path getUnseenCount() is 0 and     *)
(* getUnseenNotifications() is empty.                                      *)
(***************************************************************************)
C19_SetSeen ==
    [][OpenCall("setSeen") =>
          /\ notifications_who' = notifications_who
          /\ Cardinality(notifications') = Cardinality(notifications)
          /\ \A row \in notifications :
                 \E next \in notifications' :
                     /\ Key(next) = Key(row)
                     /\ next.gatherer = row.gatherer
                     /\ next.info = row.info
                     /\ next.seen =
                            IF last'.arg = NoPath \/ row.where = last'.arg
                            THEN 1 ELSE row.seen
          /\ last'.arg = NoPath =>
                 /\ UnseenCount' = 0
                 /\ UnseenResults' = {<<>>}]_vars

\* setSeen("/a") marked the notification at /a and left the unseen one
\* under it, at /a/b, unseen.
C19_Witness ==
    /\ db # None
    /\ last.op = "setSeen"
    /\ last.arg = PathA
    /\ \E at, under \in notifications :
          /\ at.where = PathA /\ at.seen = 1
          /\ under.where = PathAB /\ under.seen = 0

(***************************************************************************)
(* C20 - Subscription upsert.  No two rows of subscriptions share a where; *)
(* after saveSubscription(s) on an open session with s.wants True or False *)
(* one row has s.where and reads back with wants = s.wants, whether or not *)
(* s.where had a row before; with s.wants None no row has s.where; rows of *)
(* another where are as they were; and getSubscription(w) returns the row  *)
(* of w as a subscription, or none when there is no such row.              *)
(***************************************************************************)
\* The rows of subscriptions `rows` at `where`.
SubscribedAt(rows, where) == {row \in rows : row.where = where}

C20_SubscriptionUpsert ==
    [][/\ \A a, b \in subscriptions' : a.where = b.where => a = b
       /\ OpenCall("saveSubscription") =>
              /\ IF last'.arg.wants = None
                 THEN SubscribedAt(subscriptions', last'.arg.where) = {}
                 ELSE \E row \in subscriptions' :
                          /\ SubscribedAt(subscriptions', last'.arg.where)
                                 = {row}
                          /\ _createSubscriptionFromResult(row) = last'.arg
              /\ \A where \in SubWheres \ {last'.arg.where} :
                     SubscribedAt(subscriptions', where)
                         = SubscribedAt(subscriptions, where)
       /\ OpenCall("getSubscription") =>
              IF SubscribedAt(subscriptions, last'.arg) = {}
              THEN last'.result = <<>>
              ELSE /\ Len(last'.result) = 1
                   /\ last'.result[1].where = last'.arg
                   /\ \E row \in SubscribedAt(subscriptions, last'.arg) :
                          last'.result[1].wants
                              = IF row.wants = 1 THEN True ELSE False]_vars

\* A blacklisting subscription was saved and reads back, beside a row of
\* another where.
C20_Witness ==
    /\ db # None
    /\ last.op = "saveSubscription"
    /\ last.arg.wants = False
    /\ [where |-> last.arg.where, wants |-> 0] \in subscriptions
    /\ Cardinality(subscriptions) > 1

(***************************************************************************)
(* C21 - Referential integrity of actors.  While the session is open,      *)
(* every row of notifications_who has a row of notifications with its      *)
(* (what, when, where): no operation leaves an actor row without its       *)
(* notification.                                                           *)
(***************************************************************************)
C21_ReferentialIntegrity ==
    db # None =>
        \A actor \in notifications_who :
            \E row \in notifications : Key(row) = Key(actor)

(***************************************************************************)
(* C22 - Unseen count agrees with the unseen list.  While the session is   *)
(* open, getUnseenCount() is the number of events of every result of       *)
(* getUnseenNotifications(); every event of such a result is, with the     *)
(* same who, an event of every result of getAllNotifications(); and both   *)
(* results are in the order of `when` descending.                          *)
(***************************************************************************)
\* The events of a result come latest first.
WhenDescending(result) ==
    \A i, j \in 1..Len(result) : i < j => result[i].when >= result[j].when

C22_UnseenCountAgrees ==
    db # None =>
        \A unseen \in UnseenResults :
            /\ UnseenCount = Len(unseen)
            /\ WhenDescending(unseen)
            /\ \A all \in AllResults :
                   /\ WhenDescending(all)
                   /\ Range(unseen) \subseteq Range(all)
====
